---- MODULE Spec2Model ----
(***************************************************************************)
(* Job dashboard: the SQLServerHelper connection/query layer               *)
(* (src/SqlServerHelper.py), the DB-backed dashboards that write the Jobs  *)
(* table through it (src/job_dashboard.py, second half) or through their   *)
(* own autocommit connections (src/async-dashboard.py), and the            *)
(* session-state job list (src/job_dashboard.py, first half).              *)
(*                                                                         *)
(* Every operation is one action.  What the ODBC driver, the server and    *)
(* the clock decide (a probe fails, a connection attempt is refused, a     *)
(* statement or a commit fails) is drawn with \E inside the action.        *)
(***************************************************************************)
EXTENDS Integers, Sequences, FiniteSets, TLC

\* ------------------------------------------------------------ bounds
\* The clock stops here; every operation takes one tick, so this also
\* bounds the length of a run and the retry counters.
MaxClock == 3
\* The clock stops here when the helper's methods are called directly.
MaxHelperClock == 3
\* Rows the Jobs table may hold.
MaxJobs == 2
\* Jobs the operator may add to the session list (besides the two seeded).
MaxSessionAdds == 1
\* Largest max_retries a helper is constructed with.
MaxMaxRetries == 3
\* Connections the async dashboard may leave open.
MaxOpenConns == 1
\* Retries of one job in flight at the same time.
NumRetriers == 2

\* Clock ticks per second: strftime("%Y-%m-%d %H:%M:%S") keeps whole
\* seconds, GETDATE() keeps the tick.
TicksPerSecond == 2

\* max_retries=3 of SQLServerHelper.__init__
DefaultMaxRetries == 3

VARIABLES
    clock,          \* wall clock, in ticks
    db,             \* the SQLServerHelper instance: max_retries, conn, cursor, pool
    jobs,           \* the committed rows of table Jobs, in insertion order
    session_jobs,   \* st.session_state.jobs
    open_conns,     \* async-dashboard connections opened and not closed
    db_retries,     \* per row of jobs: the retries of it that returned
    session_retries,\* per row of session_jobs: the retry_job calls on it
    retriers,       \* the retries in flight at the same time, each at its step
    last            \* what the last operation did and returned

vars ==
    <<clock, db, jobs, session_jobs, open_conns, db_retries, session_retries,
      retriers, last>>

\* ------------------------------------------------------------ values
\* SQL NULL in an integer column (ExecutedDateTime, RefNum).
NULL == 0 - 1
\* SQL NULL in a text column.
NULLTEXT == "NULL"

\* Python None for a connection or cursor handle; a handle is the id of
\* the server connection it belongs to and whether close() was called.
None == [id |-> 0, closed |-> FALSE]

Handle(k) == [id |-> k, closed |-> FALSE]

\* What the operator may type into the forms.
Clients == {"", "Acme"}
JobNames == {"", "Scan"}
SessionJobIDs == {"", "J003"}
ParameterTexts == {"-k eastus"}

\* datetime.now().strftime("%Y-%m-%d %H:%M:%S"): the time cut to seconds.
Strftime(t) == t \div TicksPerSecond

\* GETDATE(): the server's clock at its own resolution (one tick).
GETDATE(t) == t

\* f"Retried successfully (Attempt {n})"
RetriedMessage(n) == "Retried successfully (Attempt " \o ToString(n) \o ")"

\* ------------------------------------------------------------ Jobs table
\* A statement the repository issues against table Jobs.  `dflt` is what
\* the table gives a column that an INSERT does not name.
Stmt(kind, client, job_name, parameters, job_id, dflt) ==
    [kind |-> kind, client |-> client, job_name |-> job_name,
     parameters |-> parameters, job_id |-> job_id, dflt |-> dflt]

\* JobID is assigned by the store; no statement deletes a row.
NextJobID(table) == Len(table) + 1

\* The table's definition is not part of the repository: a date column
\* left out of an INSERT is NULL, or the server's time if the column has
\* that default.
ColumnDefaults == {"NULL", "GETDATE"}

DefaultDateTime(dflt, now) == IF dflt = "GETDATE" THEN GETDATE(now) ELSE NULL

\* INSERT INTO Jobs (ClientName, JobName, Parameters, Status, RetryCount)
\* VALUES (?, ?, ?, 'Pending', 0): ExecutedDateTime is left to the table.
\* (First the same INSERT naming neither Status nor RetryCount.)
insert_query_no_status(table, client_name, job_name, parameters, executed) ==
    Append(table,
        [JobID |-> NextJobID(table), Client |-> client_name,
         JobName |-> job_name, Parameters |-> parameters,
         Status |-> NULLTEXT, Message |-> NULLTEXT,
         ExecutedDateTime |-> executed, RefNum |-> NULL, RetryCount |-> NULL])

insert_query(table, client_name, job_name, parameters, executed) ==
    Append(table,
        [JobID |-> NextJobID(table), Client |-> client_name,
         JobName |-> job_name, Parameters |-> parameters,
         Status |-> "Pending", Message |-> NULLTEXT,
         ExecutedDateTime |-> executed, RefNum |-> NULL, RetryCount |-> 0])

\* UPDATE Jobs SET RetryCount = RetryCount + 1, Status='Retried' WHERE JobID = ?
update_query(table, job_id) ==
    [i \in 1..Len(table) |->
        IF table[i].JobID = job_id
        THEN [table[i] EXCEPT !.RetryCount = @ + 1, !.Status = "Retried"]
        ELSE table[i]]

\* INSERT INTO Jobs (Client, JobName, Parameters, Status, Message,
\* ExecutedDateTime, RefNum, RetryCount)
\* VALUES (?, ?, ?, 'Pending', '', GETDATE(), NEWID(), 0)
add_new_job_query(table, client, job_name, parameters, now) ==
    Append(table,
        [JobID |-> NextJobID(table), Client |-> client,
         JobName |-> job_name, Parameters |-> parameters,
         Status |-> "Pending", Message |-> "",
         ExecutedDateTime |-> GETDATE(now), RefNum |-> NextJobID(table),
         RetryCount |-> 0])

\* UPDATE Jobs SET Status = 'Retry', RetryCount = RetryCount + 1,
\* ExecutedDateTime = GETDATE() WHERE JobID = ?
retry_job_query(table, job_id, now) ==
    [i \in 1..Len(table) |->
        IF table[i].JobID = job_id
        THEN [table[i] EXCEPT !.Status = "Retry", !.RetryCount = @ + 1,
                              !.ExecutedDateTime = GETDATE(now)]
        ELSE table[i]]

\* The table after a write statement.
Exec(stmt, table, now) ==
    CASE stmt.kind = "insert_query" ->
            insert_query(table, stmt.client, stmt.job_name, stmt.parameters,
                         DefaultDateTime(stmt.dflt, now))
      [] stmt.kind = "update_query" -> update_query(table, stmt.job_id)
      [] stmt.kind = "add_new_job_query" ->
            add_new_job_query(table, stmt.client, stmt.job_name,
                              stmt.parameters, now)
      [] stmt.kind = "retry_job_query" ->
            retry_job_query(table, stmt.job_id, now)

IsInsert(stmt) == stmt.kind \in {"insert_query", "add_new_job_query"}

\* cursor.rowcount after a write statement.
RowCount(stmt, table) ==
    IF IsInsert(stmt)
    THEN 1
    ELSE Cardinality({i \in 1..Len(table) : table[i].JobID = stmt.job_id})

\* The write statements handed to the helper: those of job_dashboard.py.
WriteStmts ==
    {Stmt("insert_query", "Acme", "Scan", p, 0, "NULL") : p \in ParameterTexts}
    \cup {Stmt("update_query", "", "", "", j, "NULL") : j \in 1..MaxJobs}

\* The orders in which a SELECT without ORDER BY may return n rows.
Orders(n) == {f \in [1..n -> 1..n] : \A i, j \in 1..n : i # j => f[i] # f[j]}

\* SELECT ... FROM Jobs: every row, in an order the server picks.
select_query(table, order) == [i \in 1..Len(table) |-> table[order[i]]]

\* One row put into a list sorted by ExecutedDateTime descending, after
\* the rows that are not older than it (NULL sorts as the oldest).
RECURSIVE InsertDesc(_, _)
InsertDesc(row, sorted) ==
    IF sorted = <<>> THEN <<row>>
    ELSE IF Head(sorted).ExecutedDateTime >= row.ExecutedDateTime
         THEN <<Head(sorted)>> \o InsertDesc(row, Tail(sorted))
         ELSE <<row>> \o sorted

\* SELECT ... FROM Jobs ORDER BY ExecutedDateTime DESC
RECURSIVE fetch_jobs_query(_)
fetch_jobs_query(table) ==
    IF table = <<>> THEN <<>>
    ELSE InsertDesc(Head(table), fetch_jobs_query(Tail(table)))

\* ------------------------------------------------------------ SQLServerHelper
\* What the endpoint answers to the successive connection attempts of one
\* connect(): endpoint[k] is whether the k-th attempt is accepted.
AllEndpoints == [1..MaxMaxRetries -> BOOLEAN]

\* The endpoints that refuse every attempt before the from-th and accept
\* from then on (never, for the last): every outcome connect() can have.
Endpoint(from) == [k \in 1..MaxMaxRetries |-> k >= from]

Endpoints == {Endpoint(from) : from \in 1..(MaxMaxRetries + 1)}

Refusing == [k \in 1..MaxMaxRetries |-> FALSE]

Accepts(endpoint, k) == k \in DOMAIN endpoint /\ endpoint[k]

\* What the driver and the server decide during one call: whether the
\* probe passes, the endpoint's answers, whether the statement and the
\* commit succeed, whether there is a result set and it can be read.
Env(probeOk, endpoint, execOk, commitOk, hasResult, fetchOk) ==
    [probeOk |-> probeOk, endpoint |-> endpoint, execOk |-> execOk,
     commitOk |-> commitOk, hasResult |-> hasResult, fetchOk |-> fetchOk]

\* The environment of an operation that asks nothing of it.
NoEnv == Env(TRUE, Refusing, TRUE, TRUE, TRUE, TRUE)

\* What one call of a helper method did: the helper and the table after
\* it, the error that reached the caller, and the steps it took.
Call(h, table) ==
    [db |-> h, jobs |-> table, raised |-> "none", env |-> NoEnv,
     attempts |-> 0, probed |-> FALSE, probeOk |-> FALSE,
     stmtRan |-> FALSE, stmtConn |-> 0,
     committed |-> FALSE, rolledBack |-> FALSE,
     rowcount |-> 0 - 1, ret |-> "nothing", rows |-> <<>>,
     acquired |-> 0, released |-> 0]

\* The while loop of connect(): `attempt` counts the failures, `tries`
\* the pyodbc.connect calls made so far.
RECURSIVE ConnectLoopOffByOne(_, _, _, _)
ConnectLoopOffByOne(attempt, tries, max_retries, endpoint) ==
    IF attempt <= max_retries
    THEN IF Accepts(endpoint, tries + 1)
         THEN [ok |-> TRUE, attempt |-> attempt, tries |-> tries + 1]
         ELSE ConnectLoopOffByOne(attempt + 1, tries + 1, max_retries, endpoint)
    ELSE [ok |-> FALSE, attempt |-> attempt, tries |-> tries]

RECURSIVE ConnectLoop(_, _, _, _)
ConnectLoop(attempt, tries, max_retries, endpoint) ==
    IF attempt < max_retries
    THEN IF Accepts(endpoint, tries + 1)
         THEN [ok |-> TRUE, attempt |-> attempt, tries |-> tries + 1]
         ELSE ConnectLoop(attempt + 1, tries + 1, max_retries, endpoint)
    ELSE [ok |-> FALSE, attempt |-> attempt, tries |-> tries]

\* The id of a connection opened while the helper holds connection `id`:
\* two ids are enough to tell the new connection from the one before it.
NewId(id) == IF id = 1 THEN 2 ELSE 1

\* connect(): on success conn and cursor are the new connection's; when
\* the retries are exhausted it raises and both are left as they were.
connect(h, table, endpoint) ==
    LET r == ConnectLoop(0, 0, h.max_retries, endpoint)
        new == Handle(NewId(h.conn.id))
    IN  IF r.ok
        THEN [Call(h, table) EXCEPT !.db = [h EXCEPT !.conn = new, !.cursor = new],
                                    !.attempts = r.tries,
                                    !.env = [NoEnv EXCEPT !.endpoint = endpoint]]
        ELSE [Call(h, table) EXCEPT !.raised = "ConnectionError",
                                    !.attempts = r.tries,
                                    !.env = [NoEnv EXCEPT !.endpoint = endpoint]]

\* self.cursor.execute("SELECT 1"): fails on None, on a closed cursor and
\* on a connection the server has dropped.
Probe(h, probeOk) == h.cursor # None /\ ~h.cursor.closed /\ probeOk

\* ensure_connection(): probe, and connect() when the probe fails.
ensure_connection_no_reconnect(h, table, env) ==
    [Call(h, table) EXCEPT !.probed = TRUE, !.probeOk = Probe(h, env.probeOk),
                           !.env = env]

ensure_connection(h, table, env) ==
    IF Probe(h, env.probeOk)
    THEN [Call(h, table) EXCEPT !.probed = TRUE, !.probeOk = TRUE, !.env = env]
    ELSE [connect(h, table, env.endpoint) EXCEPT !.probed = TRUE, !.env = env]

\* execute_query(): pd.read_sql on self.conn; an error is logged and
\* re-raised.
execute_query(h, table, query, order, env) ==
    LET e == ensure_connection(h, table, env)
    IN  IF e.raised # "none" THEN e
        ELSE IF ~env.execOk
        THEN [e EXCEPT !.stmtRan = TRUE, !.stmtConn = e.db.conn.id,
                       !.raised = "QueryError"]
        ELSE [e EXCEPT !.stmtRan = TRUE, !.stmtConn = e.db.conn.id,
                       !.ret = "table",
                       !.rows = IF query = "fetch_jobs_query"
                                THEN fetch_jobs_query(table)
                                ELSE select_query(table, order)]

\* execute_non_query(): cursor.execute, commit, rowcount; on an error of
\* either, rollback and re-raise.
execute_non_query(h, table, stmt, now, env) ==
    LET e == ensure_connection(h, table, env)
        ran == [e EXCEPT !.stmtRan = TRUE, !.stmtConn = e.db.cursor.id]
    IN  IF e.raised # "none" THEN e
        ELSE IF ~env.execOk \/ ~env.commitOk
        THEN [ran EXCEPT !.rolledBack = TRUE, !.raised = "QueryError"]
        ELSE [ran EXCEPT !.committed = TRUE, !.jobs = Exec(stmt, table, now),
                         !.rowcount = RowCount(stmt, table), !.ret = "rowcount"]

\* execute_stored_procedure(): EXEC, commit, then the result set if one
\* can be read (description is None without one; fetchall may fail) and
\* None otherwise; an error of EXEC or commit is rolled back and re-raised.
\* The procedures are the server's: here they read table Jobs.
execute_stored_procedure_raise_on_fetch(h, table, env) ==
    LET e == ensure_connection(h, table, env)
        ran == [e EXCEPT !.stmtRan = TRUE, !.stmtConn = e.db.cursor.id]
    IN  IF e.raised # "none" THEN e
        ELSE IF ~env.execOk \/ ~env.commitOk
        THEN [ran EXCEPT !.rolledBack = TRUE, !.raised = "QueryError"]
        ELSE IF env.hasResult /\ env.fetchOk
        THEN [ran EXCEPT !.committed = TRUE, !.ret = "table", !.rows = table]
        ELSE [ran EXCEPT !.committed = TRUE, !.rolledBack = TRUE,
                         !.raised = "QueryError"]

execute_stored_procedure(h, table, env) ==
    LET e == ensure_connection(h, table, env)
        ran == [e EXCEPT !.stmtRan = TRUE, !.stmtConn = e.db.cursor.id]
    IN  IF e.raised # "none" THEN e
        ELSE IF ~env.execOk \/ ~env.commitOk
        THEN [ran EXCEPT !.rolledBack = TRUE, !.raised = "QueryError"]
        ELSE IF env.hasResult /\ env.fetchOk
        THEN [ran EXCEPT !.committed = TRUE, !.ret = "table", !.rows = table]
        ELSE [ran EXCEPT !.committed = TRUE, !.ret = "None"]

\* close(): closes the cursor and the connection it holds, and keeps the
\* references.
close(h) ==
    [h EXCEPT !.cursor = IF @ = None THEN @ ELSE [@ EXCEPT !.closed = TRUE],
              !.conn = IF @ = None THEN @ ELSE [@ EXCEPT !.closed = TRUE]]

\* SQLServerHelper(...): the helper as constructed.
SQLServerHelper(max_retries) ==
    [max_retries |-> max_retries, conn |-> None, cursor |-> None,
     pool |-> "None"]

\* async_connect(): aioodbc.create_pool; an error reaches the caller.
async_connect(h, table, env) ==
    IF env.probeOk
    THEN [Call(h, table) EXCEPT !.db = [h EXCEPT !.pool = "open"], !.env = env]
    ELSE [Call(h, table) EXCEPT !.raised = "ConnectionError", !.env = env]

\* The two `async with` of the pooled methods: the pool must exist and be
\* open, acquire() must hand out a connection (env.probeOk), and the
\* connection goes back to the pool however the body ends.
Acquire(h, table, env) ==
    IF h.pool # "open"
    THEN [Call(h, table) EXCEPT !.raised = "PoolError", !.env = env]
    ELSE IF ~env.probeOk
    THEN [Call(h, table) EXCEPT !.raised = "ConnectionError", !.env = env]
    ELSE [Call(h, table) EXCEPT !.acquired = 1, !.released = 1, !.env = env]

\* async_execute_query(): execute, description, fetchall, DataFrame.
async_execute_query(h, table, query, order, env) ==
    LET a == Acquire(h, table, env)
    IN  IF a.raised # "none" THEN a
        ELSE IF ~env.execOk \/ ~env.fetchOk
        THEN [a EXCEPT !.stmtRan = TRUE, !.raised = "QueryError"]
        ELSE [a EXCEPT !.stmtRan = TRUE, !.ret = "table",
                       !.rows = IF query = "fetch_jobs_query"
                                THEN fetch_jobs_query(table)
                                ELSE select_query(table, order)]

\* async_execute_non_query(): execute, commit, rowcount; no except clause,
\* so an error leaves the method with no rollback issued.
async_execute_non_query(h, table, stmt, now, env) ==
    LET a == Acquire(h, table, env)
    IN  IF a.raised # "none" THEN a
        ELSE IF ~env.execOk \/ ~env.commitOk
        THEN [a EXCEPT !.stmtRan = TRUE, !.raised = "QueryError"]
        ELSE [a EXCEPT !.stmtRan = TRUE, !.committed = TRUE,
                       !.jobs = Exec(stmt, table, now),
                       !.rowcount = RowCount(stmt, table), !.ret = "rowcount"]

\* async_close(): self.pool.close(); wait_closed().
async_close(h, table) ==
    IF h.pool = "None" THEN [Call(h, table) EXCEPT !.raised = "PoolError"]
    ELSE [Call(h, table) EXCEPT !.db = [h EXCEPT !.pool = "closed"]]

\* ------------------------------------------------------------ environments
\* The probe and endpoint outcomes a synchronous call may meet: the probe
\* can pass only on a live cursor, and the endpoint is asked only when it
\* does not.
ConnEnvs(h) ==
    (IF Probe(h, TRUE) THEN {<<TRUE, Refusing>>} ELSE {})
    \cup {<<FALSE, e>> : e \in Endpoints}

Connected(h, ce) ==
    ensure_connection(h, <<>>, Env(ce[1], ce[2], TRUE, TRUE, TRUE, TRUE)).raised
        = "none"

\* Statement and commit: both succeed, the statement fails, the commit fails.
StmtOutcomes == {<<TRUE, TRUE>>, <<FALSE, TRUE>>, <<TRUE, FALSE>>}

\* Result set: readable, absent, unreadable.
ResultOutcomes == {<<TRUE, TRUE>>, <<FALSE, TRUE>>, <<TRUE, FALSE>>}

QueryEnvs(h) ==
    UNION {{Env(ce[1], ce[2], x, TRUE, TRUE, TRUE) :
                x \in IF Connected(h, ce) THEN BOOLEAN ELSE {TRUE}} :
           ce \in ConnEnvs(h)}

WriteEnvs(h) ==
    UNION {{Env(ce[1], ce[2], so[1], so[2], TRUE, TRUE) :
                so \in IF Connected(h, ce) THEN StmtOutcomes ELSE {<<TRUE, TRUE>>}} :
           ce \in ConnEnvs(h)}

ProcEnvs(h) ==
    UNION {{Env(e.probeOk, e.endpoint, e.execOk, e.commitOk, ro[1], ro[2]) :
                ro \in IF Connected(h, <<e.probeOk, e.endpoint>>)
                          /\ e.execOk /\ e.commitOk
                       THEN ResultOutcomes ELSE {<<TRUE, TRUE>>}} :
           e \in WriteEnvs(h)}

\* An asynchronous call: whether a connection is obtained, then whether
\* the statement and (on the pooled write) the commit succeed.
AsyncEnvs(withCommit) ==
    {Env(FALSE, Refusing, TRUE, TRUE, TRUE, TRUE)}
    \cup {Env(TRUE, Refusing, so[1], so[2], TRUE, TRUE) :
            so \in IF withCommit THEN StmtOutcomes
                   ELSE {<<TRUE, TRUE>>, <<FALSE, TRUE>>}}

\* What one run of the database page may meet: all goes well, the
\* endpoint refuses the connection, the statements fail.
PageEnvs ==
    {Env(TRUE, Endpoint(1), TRUE, TRUE, TRUE, TRUE),
     Env(FALSE, Refusing, TRUE, TRUE, TRUE, TRUE),
     Env(TRUE, Endpoint(1), FALSE, TRUE, TRUE, TRUE)}

\* ------------------------------------------------------------ job_dashboard.py (database)
\* get_jobs_from_db(): the rows in the server's order; an error of the
\* query is shown and an empty frame returned.
get_jobs_from_db(h, table, order, env) ==
    LET q == execute_query(h, table, "select_query", order, env)
    IN  IF q.raised # "none"
        THEN [q EXCEPT !.raised = "none", !.ret = "table", !.rows = <<>>]
        ELSE q

\* Lines 77-84: db = SQLServerHelper.from_akv(...); db.connect().
PageStart(table, env) ==
    connect(SQLServerHelper(DefaultMaxRetries), table, env.endpoint)

\* The order of insertion.
InOrder(n) == [i \in 1..n |-> i]

\* The JobIDs of the rows the page shows a retry button for.
ButtonIDs(df) == {df[i].JobID : i \in 1..Len(df)}

\* ------------------------------------------------------------ async-dashboard.py
\* get_sql_connection() and the cursor block of the three functions: the
\* connection is autocommit, and conn.close() is reached only when the
\* statement did not raise.
AsyncStatement(h, table, env) ==
    IF ~env.probeOk
    THEN [Call(h, table) EXCEPT !.raised = "ConnectionError", !.env = env]
    ELSE IF ~env.execOk
    THEN [Call(h, table) EXCEPT !.acquired = 1, !.stmtRan = TRUE,
                                !.raised = "QueryError", !.env = env]
    ELSE [Call(h, table) EXCEPT !.acquired = 1, !.released = 1,
                                !.stmtRan = TRUE, !.env = env]

fetch_jobs(h, table, env) ==
    LET s == AsyncStatement(h, table, env)
    IN  IF s.raised # "none" THEN s
        ELSE [s EXCEPT !.ret = "table", !.rows = fetch_jobs_query(table)]

add_new_job(h, table, client, job_name, parameters, now, env) ==
    LET s == AsyncStatement(h, table, env)
    IN  IF s.raised # "none" THEN s
        ELSE [s EXCEPT !.jobs = add_new_job_query(table, client, job_name,
                                                  parameters, now)]

retry_job(h, table, job_id, now, env) ==
    LET s == AsyncStatement(h, table, env)
    IN  IF s.raised # "none" THEN s
        ELSE [s EXCEPT !.jobs = retry_job_query(table, job_id, now)]

\* ------------------------------------------------------------ job_dashboard.py (session)
\* st.session_state.jobs as first initialised, at time `now`.
InitialSessionJobs(now) ==
    <<[ClientName |-> "ABC Corp", JobID |-> "J001",
       JobName |-> "Cost Metrics Scan", Message |-> "Completed Successfully",
       Status |-> "Completed", ExecutedDatetime |-> Strftime(now),
       RetryCount |-> 0, Parameters |-> "-k eastus, -t 80%"],
      [ClientName |-> "XYZ Ltd", JobID |-> "J002",
       JobName |-> "Azure Inventory Fetch", Message |-> "Failed: Timeout",
       Status |-> "Failed", ExecutedDatetime |-> Strftime(now),
       RetryCount |-> 1, Parameters |-> "-sub Prod, -timeout 30s"]>>

add_job(session, client, job_id, job_name, params, now) ==
    Append(session,
        [ClientName |-> client, JobID |-> job_id, JobName |-> job_name,
         Message |-> "Pending Execution", Status |-> "Pending",
         ExecutedDatetime |-> Strftime(now), RetryCount |-> 0,
         Parameters |-> params])

\* retry_job(index): index is 0-based.
session_retry_job(session, index, now) ==
    [session EXCEPT
        ![index + 1] = [@ EXCEPT !.RetryCount = @ + 1,
                                 !.ExecutedDatetime = Strftime(now),
                                 !.Message = RetriedMessage(session[index + 1].RetryCount + 1),
                                 !.Status = "Retried"]]

\* The rows left by the two select boxes; the frame built from them is
\* indexed by position in this list.
jobs_filtered(session, selected_client, selected_status) ==
    LET Keep(j) == /\ (selected_client = "All" \/ j.ClientName = selected_client)
                   /\ (selected_status = "All" \/ j.Status = selected_status)
    IN  SelectSeq(session, Keep)

ClientOptions(session) ==
    {"All"} \cup {session[i].ClientName : i \in 1..Len(session)}

StatusOptions(session) ==
    {"All"} \cup {session[i].Status : i \in 1..Len(session)}

\* ------------------------------------------------------------ state machine
\* The record of an operation: its name and arguments, what the
\* environment did, the error that reached the caller ("none" when it
\* returned), and what the call did.
Last(op, client, job_name, job_id, r) ==
    [op |-> op, client |-> client, job_name |-> job_name, job_id |-> job_id,
     env |-> r.env,
     raised |-> r.raised, rejected |-> FALSE, index |-> 0 - 1, clicked |-> "",
     attempts |-> r.attempts, probed |-> r.probed, probeOk |-> r.probeOk,
     stmtRan |-> r.stmtRan, stmtConn |-> r.stmtConn,
     committed |-> r.committed, rolledBack |-> r.rolledBack,
     rowcount |-> r.rowcount, ret |-> r.ret, rows |-> r.rows,
     acquired |-> r.acquired, released |-> r.released]

NoOp == Last("init", "", "", 0, Call(SQLServerHelper(DefaultMaxRetries), <<>>))

\* The retries of each row that returned, after a call on `table` that
\* retried row `job_id` (0: the call was no retry).
Counted(count, table, r, job_id) ==
    IF r.raised # "none" THEN count
    ELSE IF job_id = 0
    THEN IF Len(r.jobs) > Len(table) THEN Append(count, 0) ELSE count
    ELSE [i \in 1..Len(count) |->
            IF table[i].JobID = job_id THEN count[i] + 1 ELSE count[i]]

\* The dashboards build the helper with from_akv, which leaves max_retries
\* at its default.
Init ==
    /\ clock = 0
    /\ db = SQLServerHelper(DefaultMaxRetries)
    /\ jobs = <<>>
    /\ db_retries = <<>>
    /\ session_retries = [i \in 1..Len(InitialSessionJobs(0)) |-> 0]
    /\ session_jobs = InitialSessionJobs(0)
    /\ open_conns = 0
    /\ retriers = <<>>
    /\ last = NoOp

\* One operation of a page, or of the helper, with no other in flight.
Step == clock < MaxClock /\ clock' = clock + 1 /\ UNCHANGED retriers

HelperStep ==
    clock < MaxHelperClock /\ clock' = clock + 1 /\ UNCHANGED retriers

\* ---- SQLServerHelper, called directly
Connect ==
    /\ HelperStep
    /\ \E endpoint \in AllEndpoints :
         LET r == connect(db, jobs, endpoint)
         IN  /\ db' = r.db
             /\ last' = Last("connect", "", "", 0, r)
    /\ UNCHANGED <<jobs, db_retries, session_jobs, session_retries, open_conns>>

Close ==
    /\ HelperStep
    /\ db' = close(db)
    /\ last' = Last("close", "", "", 0, Call(db, jobs))
    /\ UNCHANGED <<jobs, db_retries, session_jobs, session_retries, open_conns>>

ExecuteQuery ==
    /\ HelperStep
    /\ \E query \in {"select_query", "fetch_jobs_query"} :
       \E env \in QueryEnvs(db) :
       \E order \in Orders(Len(jobs)) :
         LET r == execute_query(db, jobs, query, order, env)
         IN  /\ db' = r.db
             /\ last' = Last("execute_query", "", "", 0, r)
    /\ UNCHANGED <<jobs, db_retries, session_jobs, session_retries, open_conns>>

ExecuteNonQuery ==
    /\ HelperStep
    /\ \E stmt \in WriteStmts :
       \E env \in WriteEnvs(db) :
         LET r == execute_non_query(db, jobs, stmt, clock, env)
         IN  /\ IsInsert(stmt) => Len(jobs) < MaxJobs
             /\ db' = r.db
             /\ jobs' = r.jobs
             /\ db_retries' = Counted(db_retries, jobs, r, stmt.job_id)
             /\ last' = Last("execute_non_query", stmt.client, stmt.job_name,
                             stmt.job_id, r)
    /\ UNCHANGED <<session_jobs, session_retries, open_conns>>

ExecuteStoredProcedure ==
    /\ HelperStep
    /\ \E env \in ProcEnvs(db) :
         LET r == execute_stored_procedure(db, jobs, env)
         IN  /\ db' = r.db
             /\ last' = Last("execute_stored_procedure", "", "", 0, r)
    /\ UNCHANGED <<jobs, db_retries, session_jobs, session_retries, open_conns>>

AsyncConnect ==
    /\ HelperStep
    /\ \E env \in AsyncEnvs(FALSE) :
         LET r == async_connect(db, jobs, env)
         IN  /\ db' = r.db
             /\ last' = Last("async_connect", "", "", 0, r)
    /\ UNCHANGED <<jobs, db_retries, session_jobs, session_retries, open_conns>>

AsyncExecuteQuery ==
    /\ HelperStep
    /\ \E query \in {"select_query", "fetch_jobs_query"} :
       \E env \in AsyncEnvs(FALSE) :
       \E order \in Orders(Len(jobs)) :
         LET r == async_execute_query(db, jobs, query, order, env)
         IN  last' = Last("async_execute_query", "", "", 0, r)
    /\ UNCHANGED <<db, jobs, db_retries, session_jobs, session_retries, open_conns>>

AsyncExecuteNonQuery ==
    /\ HelperStep
    /\ \E stmt \in WriteStmts :
       \E env \in AsyncEnvs(TRUE) :
         LET r == async_execute_non_query(db, jobs, stmt, clock, env)
         IN  /\ IsInsert(stmt) => Len(jobs) < MaxJobs
             /\ jobs' = r.jobs
             /\ db_retries' = Counted(db_retries, jobs, r, stmt.job_id)
             /\ last' = Last("async_execute_non_query", stmt.client,
                             stmt.job_name, stmt.job_id, r)
    /\ UNCHANGED <<db, session_jobs, session_retries, open_conns>>

AsyncClose ==
    /\ HelperStep
    /\ LET r == async_close(db, jobs)
       IN  /\ db' = r.db
           /\ last' = Last("async_close", "", "", 0, r)
    /\ UNCHANGED <<jobs, db_retries, session_jobs, session_retries, open_conns>>

\* ---- job_dashboard.py, database page
\* One run of the page is one action: the helper is built and connected
\* (lines 77-84), the frame is fetched (line 96), the submitted form or
\* the clicked button is served, and the helper is closed (line 140).  An
\* exception ends the run where it is raised: when db.connect() raises,
\* nothing of the page is run.  `env` is what the driver
\* and the server do for the length of the run.

\* The page shown, nothing submitted.
GetJobsFromDb ==
    /\ Step
    /\ \E env \in PageEnvs :
       \E order \in Orders(Len(jobs)) :
         LET c == PageStart(jobs, env)
             g == get_jobs_from_db(c.db, jobs, order, env)
         IN  IF c.raised # "none"
             THEN /\ db' = c.db
                  /\ last' = Last("db_connect", "", "", 0, c)
             ELSE /\ db' = close(g.db)
                  /\ last' = Last("get_jobs_from_db", "", "", 0, g)
    /\ UNCHANGED <<jobs, db_retries, session_jobs, session_retries, open_conns>>

\* The write of a form or button of the page, then the refresh of the
\* frame that follows it when the write returned.  A button exists only
\* for a row of the frame fetched by this run.
WriteAndRefresh(op, stmt) ==
    \E env \in PageEnvs :
      LET c == PageStart(jobs, env)
          g == get_jobs_from_db(c.db, jobs, InOrder(Len(jobs)), env)
          w == execute_non_query(g.db, jobs, stmt, clock, env)
          r == get_jobs_from_db(w.db, w.jobs, InOrder(Len(w.jobs)), env)
      IN  IF c.raised # "none"
          THEN /\ db' = c.db
               /\ jobs' = jobs
               /\ db_retries' = db_retries
               /\ last' = Last("db_connect", "", "", 0, c)
          ELSE /\ IsInsert(stmt) \/ stmt.job_id \in ButtonIDs(g.rows)
               /\ db' = IF w.raised # "none" THEN w.db ELSE close(r.db)
               /\ jobs' = w.jobs
               /\ db_retries' = Counted(db_retries, jobs, w, stmt.job_id)
               /\ last' = Last(op, stmt.client, stmt.job_name, stmt.job_id, w)

\* "Add Job" of add_job_form: the INSERT is issued with whatever was typed.
AddJobFormSync ==
    /\ Step
    /\ Len(jobs) < MaxJobs
    /\ \E client_name \in Clients, job_name \in JobNames,
          parameters \in ParameterTexts, dflt \in ColumnDefaults :
         WriteAndRefresh("add_job_form_sync",
                         Stmt("insert_query", client_name, job_name,
                              parameters, 0, dflt))
    /\ UNCHANGED <<session_jobs, session_retries, open_conns>>

\* A retry button of a row of the fetched frame.
RetryButtonSync ==
    /\ Step
    /\ \E job_id \in 1..MaxJobs :
         WriteAndRefresh("retry_button_sync",
                         Stmt("update_query", "", "", "", job_id, "NULL"))
    /\ UNCHANGED <<session_jobs, session_retries, open_conns>>

\* ---- async-dashboard.py
\* A connection opened and not closed stays open.
Leak(r) ==
    /\ open_conns + r.acquired - r.released <= MaxOpenConns
    /\ open_conns' = open_conns + r.acquired - r.released

FetchJobs ==
    /\ Step
    /\ \E env \in AsyncEnvs(FALSE) :
         LET r == fetch_jobs(db, jobs, env)
         IN  /\ Leak(r)
             /\ last' = Last("fetch_jobs", "", "", 0, r)
    /\ UNCHANGED <<db, jobs, db_retries, session_jobs, session_retries>>

\* "Add Job" of add_job_form: add_new_job runs only when client and
\* job_name are filled in, and a warning is shown otherwise.
AddJobFormAsync ==
    /\ Step
    /\ \E client \in Clients, job_name \in JobNames,
          parameters \in ParameterTexts :
         IF client # "" /\ job_name # ""
         THEN /\ Len(jobs) < MaxJobs
              /\ \E env \in AsyncEnvs(FALSE) :
                   LET r == add_new_job(db, jobs, client, job_name, parameters,
                                        clock, env)
                   IN  /\ Leak(r)
                       /\ jobs' = r.jobs
                       /\ db_retries' = Counted(db_retries, jobs, r, 0)
                       /\ last' = Last("add_job_form_async", client, job_name, 0, r)
         ELSE /\ UNCHANGED <<jobs, db_retries, open_conns>>
              /\ last' = [Last("add_job_form_async", client, job_name, 0,
                               Call(db, jobs)) EXCEPT !.rejected = TRUE]
    /\ UNCHANGED <<db, session_jobs, session_retries>>

\* retry_job(job_id), with whatever job id the caller passes.
RetryJobAsync ==
    /\ Step
    /\ \E job_id \in 1..MaxJobs :
       \E env \in AsyncEnvs(FALSE) :
         LET r == retry_job(db, jobs, job_id, clock, env)
         IN  /\ Leak(r)
             /\ jobs' = r.jobs
             /\ db_retries' = Counted(db_retries, jobs, r, job_id)
             /\ last' = Last("retry_job", "", "", job_id, r)
    /\ UNCHANGED <<db, session_jobs, session_retries>>

\* ---- job_dashboard.py, session page
\* "Add Job" of add_job_form: add_job runs only when client, job id and
\* job name are filled in, and an error is shown otherwise.
AddJobFormSession ==
    /\ Step
    /\ \E client_name \in Clients, job_id \in SessionJobIDs,
          job_name \in JobNames, params \in ParameterTexts :
         IF client_name # "" /\ job_id # "" /\ job_name # ""
         THEN /\ Len(session_jobs) < Len(InitialSessionJobs(0)) + MaxSessionAdds
              /\ session_jobs' = add_job(session_jobs, client_name, job_id,
                                         job_name, params, clock)
              /\ session_retries' = Append(session_retries, 0)
              /\ last' = [Last("add_job_form_session", client_name, job_name, 0,
                               Call(db, jobs)) EXCEPT !.clicked = job_id]
         ELSE /\ UNCHANGED <<session_jobs, session_retries>>
              /\ last' = [Last("add_job_form_session", client_name, job_name, 0,
                               Call(db, jobs))
                          EXCEPT !.rejected = TRUE, !.clicked = job_id]
    /\ UNCHANGED <<db, jobs, db_retries, open_conns>>

\* The retry button of row i of the displayed frame: retry_job(i).
RetryButtonSession ==
    /\ Step
    /\ \E selected_client \in ClientOptions(session_jobs),
          selected_status \in StatusOptions(session_jobs) :
         LET f == jobs_filtered(session_jobs, selected_client, selected_status)
         IN  \E i \in 0..(Len(f) - 1) :
               /\ session_jobs' = session_retry_job(session_jobs, i, clock)
               /\ session_retries' = [session_retries EXCEPT ![i + 1] = @ + 1]
               /\ last' = [Last("retry_button_session", f[i + 1].ClientName,
                                f[i + 1].JobName, 0, Call(db, jobs))
                           EXCEPT !.index = i, !.clicked = f[i + 1].JobID]
    /\ UNCHANGED <<db, jobs, db_retries, open_conns>>

\* The three pages.
Next ==
    \/ GetJobsFromDb
    \/ AddJobFormSync
    \/ RetryButtonSync
    \/ FetchJobs
    \/ AddJobFormAsync
    \/ RetryJobAsync
    \/ AddJobFormSession
    \/ RetryButtonSession

Spec == Init /\ [][Next]_vars

\* The helper on its own: constructed with any max_retries, its methods
\* called directly.
InitHelper ==
    /\ clock = 0
    /\ db \in {SQLServerHelper(n) : n \in 0..MaxMaxRetries}
    /\ jobs = <<>>
    /\ db_retries = <<>>
    /\ session_retries = [i \in 1..Len(InitialSessionJobs(0)) |-> 0]
    /\ session_jobs = InitialSessionJobs(0)
    /\ open_conns = 0
    /\ retriers = <<>>
    /\ last = NoOp

NextHelper ==
    \/ Connect
    \/ Close
    \/ ExecuteQuery
    \/ ExecuteNonQuery
    \/ ExecuteStoredProcedure
    \/ AsyncConnect
    \/ AsyncExecuteQuery
    \/ AsyncExecuteNonQuery
    \/ AsyncClose

SpecHelper == InitHelper /\ [][NextHelper]_vars

\* ---- retries of one job in flight at the same time
\* Each retrier is one click of a retry button of the same job, served by
\* its own run of a page: on async-dashboard.py (retry_job), on the
\* database page of job_dashboard.py (its own helper, frame and UPDATE),
\* or on the session page.  The steps of different retriers interleave
\* wherever a step leaves the process: at the calls to the server.  The
\* server runs one UPDATE statement (with its commit) as one step.  The
\* session list belongs to one browser session, whose runs Streamlit
\* serves one after the other, so retry_job(index) is one step.
RetrierPaths == {"async", "sync", "session"}

\* The job every retrier retries: the first row of the table, the first
\* entry of the session list.
RetriedJobID == 1

RetriedIndex == 0

\* The table the retriers find: one job, as added, or added and retried.
RetriedTables ==
    LET added == add_new_job_query(<<>>, "Acme", "Scan", "-k eastus", 0)
    IN  {added, retry_job_query(added, RetriedJobID, 0)}

\* A retrier that has not started: `frame` is the frame its page fetched,
\* `initial` the job's retry count when the retriers started, `returned`
\* whether its retry has returned without an error.
Retrier(path, initial) ==
    [path |-> path, pc |-> "start", frame |-> <<>>, initial |-> initial,
     returned |-> FALSE]

\* The row of the frame whose retry button is clicked.
ButtonRow(frame) ==
    frame[CHOOSE i \in 1..Len(frame) : frame[i].JobID = RetriedJobID]

\* The UPDATE of the retry button of `row`, with the retry count the
\* frame shows plus one as the new value.
retry_button_update_from_frame(table, row) ==
    [i \in 1..Len(table) |->
        IF table[i].JobID = row.JobID
        THEN [table[i] EXCEPT !.RetryCount = row.RetryCount + 1,
                              !.Status = "Retried"]
        ELSE table[i]]

\* The UPDATE of the retry button of `row`: params=(row['JobID'],).
retry_button_update(table, row) == update_query(table, row.JobID)

InitConcurrent ==
    /\ clock = 0
    /\ db = SQLServerHelper(DefaultMaxRetries)
    /\ jobs \in RetriedTables
    /\ db_retries = <<0>>
    /\ session_retries = [i \in 1..Len(InitialSessionJobs(0)) |-> 0]
    /\ session_jobs = InitialSessionJobs(0)
    /\ open_conns = 0
    /\ \E paths \in [1..NumRetriers -> RetrierPaths] :
         retriers =
            [p \in 1..NumRetriers |->
                Retrier(paths[p],
                        IF paths[p] = "session"
                        THEN session_jobs[RetriedIndex + 1].RetryCount
                        ELSE jobs[RetriedJobID].RetryCount)]
    /\ last = NoOp

\* get_sql_connection() of retry_job, or db.connect() of the page.
RetrierConnect ==
    \E p \in DOMAIN retriers :
      /\ retriers[p].path \in {"async", "sync"}
      /\ retriers[p].pc = "start"
      /\ \E ok \in BOOLEAN :
           retriers' = [retriers EXCEPT
                          ![p].pc = IF ok THEN "connected" ELSE "failed"]
      /\ UNCHANGED <<clock, db, jobs, session_jobs, open_conns, db_retries,
                     session_retries, last>>

\* jobs_df = get_jobs_from_db(): the frame the buttons are drawn from; a
\* failed query gives an empty frame, which has no button to click.
RetrierFetch ==
    \E p \in DOMAIN retriers :
      /\ retriers[p].path = "sync"
      /\ retriers[p].pc = "connected"
      /\ \E ok \in BOOLEAN :
           retriers' = [retriers EXCEPT
                          ![p].pc = IF ok THEN "fetched" ELSE "done",
                          ![p].frame =
                             IF ok THEN select_query(jobs, InOrder(Len(jobs)))
                             ELSE <<>>]
      /\ UNCHANGED <<clock, db, jobs, session_jobs, open_conns, db_retries,
                     session_retries, last>>

\* The UPDATE: cursor.execute of retry_job on its autocommit connection,
\* or execute_non_query(update_query, (row['JobID'],)) with its commit.  A
\* failure leaves the table as it was and ends the run.
RetrierUpdate ==
    \E p \in DOMAIN retriers :
      /\ \/ retriers[p].path = "async" /\ retriers[p].pc = "connected"
         \/ retriers[p].path = "sync" /\ retriers[p].pc = "fetched"
      /\ \E ok \in BOOLEAN :
           IF ok
           THEN /\ jobs' = IF retriers[p].path = "async"
                           THEN retry_job_query(jobs, RetriedJobID, clock)
                           ELSE retry_button_update(
                                    jobs, ButtonRow(retriers[p].frame))
                /\ retriers' = [retriers EXCEPT ![p].pc = "updated",
                                                ![p].returned = TRUE]
           ELSE /\ jobs' = jobs
                /\ retriers' = [retriers EXCEPT ![p].pc = "failed"]
      /\ clock' = clock + 1
      /\ UNCHANGED <<db, session_jobs, open_conns, db_retries,
                     session_retries, last>>

\* conn.close() of retry_job; the refresh of the frame and db.close() of
\* the page.
RetrierClose ==
    \E p \in DOMAIN retriers :
      /\ retriers[p].pc = "updated"
      /\ retriers' = [retriers EXCEPT ![p].pc = "done"]
      /\ UNCHANGED <<clock, db, jobs, session_jobs, open_conns, db_retries,
                     session_retries, last>>

\* retry_job(index) of the session page.
RetrierSession ==
    \E p \in DOMAIN retriers :
      /\ retriers[p].path = "session"
      /\ retriers[p].pc = "start"
      /\ session_jobs' = session_retry_job(session_jobs, RetriedIndex, clock)
      /\ retriers' = [retriers EXCEPT ![p].pc = "done", ![p].returned = TRUE]
      /\ clock' = clock + 1
      /\ UNCHANGED <<db, jobs, open_conns, db_retries, session_retries, last>>

NextConcurrent ==
    \/ RetrierConnect
    \/ RetrierFetch
    \/ RetrierUpdate
    \/ RetrierClose
    \/ RetrierSession

SpecConcurrent == InitConcurrent /\ [][NextConcurrent]_vars

\* ------------------------------------------------------------ properties
\* C1: for every job, after n retries of it that returned (among any adds
\* and retries), its retry count is its value before them plus n, and if
\* n >= 1 its status is 'Retry'.  The session list starts with the retry
\* counts of InitialSessionJobs; every other job starts at 0.
C1_RetryCountAndStatus ==
    /\ \A i \in 1..Len(jobs) :
         /\ jobs[i].RetryCount = db_retries[i]
         /\ db_retries[i] >= 1 => jobs[i].Status = "Retry"
    /\ \A i \in 1..Len(session_jobs) :
         /\ session_jobs[i].RetryCount =
              (IF i <= Len(InitialSessionJobs(0))
               THEN InitialSessionJobs(0)[i].RetryCount ELSE 0)
              + session_retries[i]
         /\ session_retries[i] >= 1 => session_jobs[i].Status = "Retry"

\* C2: a job created by an add (database form, async form, session form)
\* has retry count 0 and status 'Pending' in the state right after the
\* step that creates it, whatever the store held before; an add that
\* returns creates exactly one job, and only adds create jobs.
C2_AddJobPendingZero ==
    [][/\ Len(jobs') > Len(jobs) =>
            /\ last'.op \in {"add_job_form_sync", "add_job_form_async"}
            /\ Len(jobs') = Len(jobs) + 1
            /\ jobs'[Len(jobs')].RetryCount = 0
            /\ jobs'[Len(jobs')].Status = "Pending"
       /\ Len(session_jobs') > Len(session_jobs) =>
            /\ last'.op = "add_job_form_session"
            /\ Len(session_jobs') = Len(session_jobs) + 1
            /\ session_jobs'[Len(session_jobs')].RetryCount = 0
            /\ session_jobs'[Len(session_jobs')].Status = "Pending"
       /\ (/\ last'.op \in {"add_job_form_sync", "add_job_form_async"}
           /\ last'.raised = "none" /\ ~last'.rejected) =>
            Len(jobs') = Len(jobs) + 1
       /\ (last'.op = "add_job_form_session" /\ ~last'.rejected) =>
            Len(session_jobs') = Len(session_jobs) + 1]_vars

\* A second row added by the database form to a table whose first row has
\* been retried.
C2_Witness ==
    /\ last.op = "add_job_form_sync"
    /\ last.raised = "none"
    /\ Len(jobs) = 2
    /\ jobs[1].RetryCount = 1
    /\ jobs[2].Status = "Pending"

\* C3: connect() with max_retries = N makes at most N attempts; if one of
\* the first N attempts is accepted it stops at the first such, returns,
\* and the helper holds a live connection and its cursor; if none is, it
\* makes exactly N attempts and raises the connection error.
C3_ConnectAttempts ==
    last.op = "connect" =>
        LET N == db.max_retries
            accepted == {k \in 1..N : last.env.endpoint[k]}
        IN  /\ last.attempts <= N
            /\ accepted # {} =>
                 /\ last.raised = "none"
                 /\ last.attempts \in accepted
                 /\ \A k \in accepted : last.attempts <= k
                 /\ db.conn # None /\ ~db.conn.closed
                 /\ db.cursor = db.conn
            /\ accepted = {} =>
                 /\ last.raised = "ConnectionError"
                 /\ last.attempts = N

\* max_retries = 3 against an endpoint that refuses everything: three
\* attempts, then the error.
C3_Witness ==
    /\ last.op = "connect"
    /\ db.max_retries = 3
    /\ \A k \in DOMAIN last.env.endpoint : ~last.env.endpoint[k]
    /\ last.attempts = 3
    /\ last.raised = "ConnectionError"

\* C4: a write through the helper, synchronous or pooled: when statement
\* and commit succeed it commits and returns the affected-row count; when
\* either fails, a rollback is issued and the error reaches the caller.
C4_WriteCommitsOrRollsBack ==
    (/\ last.op \in {"execute_non_query", "async_execute_non_query"}
     /\ last.stmtRan) =>
        IF last.env.execOk /\ last.env.commitOk
        THEN /\ last.committed
             /\ last.raised = "none"
             /\ last.ret = "rowcount"
             /\ last.rowcount =
                  IF last.job_id = 0 THEN 1
                  ELSE Cardinality({i \in 1..Len(jobs) :
                                      jobs[i].JobID = last.job_id})
        ELSE /\ ~last.committed
             /\ last.rolledBack
             /\ last.raised = "QueryError"

\* C5: an add with an empty client or an empty job name is rejected with
\* a validation message, issues no statement and writes nothing, on each
\* of the three add forms.
C5_EmptyInputRejected ==
    [][(/\ last'.op \in {"add_job_form_sync", "add_job_form_async",
                         "add_job_form_session"}
        /\ (last'.client = "" \/ last'.job_name = "")) =>
            /\ last'.rejected
            /\ ~last'.stmtRan
            /\ jobs' = jobs
            /\ session_jobs' = session_jobs]_vars

\* C6: retry_job on a job id that no row of the table has ends with an
\* error, and leaves the table as it was.
C6_RetryUnknownIdNotFound ==
    [][(/\ last'.op = "retry_job"
        /\ last'.job_id \notin ButtonIDs(jobs)) =>
            /\ last'.raised # "none"
            /\ jobs' = jobs]_vars

\* C7: execute_query, execute_non_query and execute_stored_procedure probe
\* the cursor first.  When the probe passes, the statement runs on the
\* connection held.  When it fails (also on a helper never connected),
\* connect() is called: if it succeeds the helper holds a new live
\* connection and the statement runs on it; if it fails the connection
\* error reaches the caller, the statement is not run and the helper is
\* as it was.
C7_ProbeThenReconnect ==
    [][last'.op \in {"execute_query", "execute_non_query",
                     "execute_stored_procedure"} =>
          /\ last'.probed
          /\ IF Probe(db, last'.env.probeOk)
             THEN /\ last'.attempts = 0
                  /\ db' = db
                  /\ last'.stmtRan
                  /\ last'.stmtConn = db.conn.id
             ELSE \/ /\ last'.raised = "ConnectionError"
                     /\ last'.attempts = db.max_retries
                     /\ ~last'.stmtRan
                     /\ db' = db
                  \/ /\ last'.raised # "ConnectionError"
                     /\ last'.attempts \in 1..db.max_retries
                     /\ db'.conn.id # db.conn.id
                     /\ ~db'.conn.closed
                     /\ db'.cursor = db'.conn
                     /\ last'.stmtRan
                     /\ last'.stmtConn = db'.conn.id]_vars

\* A write whose probe failed, whose reconnect needed a second attempt,
\* and which then ran and committed.
C7_Witness ==
    /\ last.op = "execute_non_query"
    /\ last.probed /\ ~last.env.probeOk
    /\ last.attempts = 2
    /\ last.stmtRan
    /\ last.stmtConn = db.conn.id
    /\ last.committed

\* C8: ExecutedDateTime of a row of table Jobs is the time of the job's
\* latest transition: a new job has the time of its creation (or none,
\* where the INSERT leaves the column to a table without a default), a
\* retry that returned leaves a value strictly greater than the one
\* before it, and nothing else changes it.
C8_ExecutedAtFollowsTransitions ==
    [][\A i \in 1..Len(jobs') :
          IF i > Len(jobs)
          THEN jobs'[i].ExecutedDateTime \in {GETDATE(clock), NULL}
          ELSE IF db_retries'[i] > db_retries[i]
          THEN jobs'[i].ExecutedDateTime > jobs[i].ExecutedDateTime
          ELSE jobs'[i].ExecutedDateTime = jobs[i].ExecutedDateTime]_vars

\* C9: a listing whose query succeeded (fetch_jobs, get_jobs_from_db)
\* holds every row of the table, each once, and each row's
\* ExecutedDateTime is at least that of the row after it.
C9_ListSortedDesc ==
    (/\ last.op \in {"fetch_jobs", "get_jobs_from_db"}
     /\ last.stmtRan /\ last.env.execOk) =>
        /\ Len(last.rows) = Len(jobs)
        /\ \A j \in 1..Len(jobs) :
             \E i \in 1..Len(last.rows) : last.rows[i] = jobs[j]
        /\ \A i \in 1..(Len(last.rows) - 1) :
             last.rows[i].ExecutedDateTime >= last.rows[i + 1].ExecutedDateTime

\* C10: execute_stored_procedure, once connected: a failure of EXEC or of
\* the commit reaches the caller after a rollback; otherwise the call has
\* committed and returns with no error, with the result set as a table
\* when there is one and it can be read, and with None when there is none
\* or it cannot be read.
C10_ProcedureResultOrNone ==
    (last.op = "execute_stored_procedure" /\ last.stmtRan) =>
        IF ~last.env.execOk \/ ~last.env.commitOk
        THEN /\ last.raised = "QueryError"
             /\ last.rolledBack
             /\ ~last.committed
        ELSE /\ last.committed
             /\ last.raised = "none"
             /\ IF last.env.hasResult /\ last.env.fetchOk
                THEN last.ret = "table" /\ last.rows = jobs
                ELSE last.ret = "None" /\ last.rows = <<>>

\* A procedure that committed on a table with a row, whose result set
\* could not be read: None comes back, and no error.
C10_Witness ==
    /\ last.op = "execute_stored_procedure"
    /\ last.committed
    /\ last.env.hasResult /\ ~last.env.fetchOk
    /\ last.ret = "None"
    /\ last.raised = "none"
    /\ Len(jobs) >= 1

\* C12: every asynchronous operation that obtains a connection obtains
\* exactly one and gives it back (to the pool, or by closing it) before
\* it ends, whether it returns or raises; so between operations no
\* connection obtained by one of them is still open.
C12_AsyncReleasesConnection ==
    /\ open_conns = 0
    /\ last.op \in {"fetch_jobs", "add_job_form_async", "retry_job",
                    "async_execute_query", "async_execute_non_query"} =>
         /\ last.acquired = last.released
         /\ last.stmtRan => last.acquired = 1

\* C13: a retry changes only Status, RetryCount and ExecutedDateTime of
\* the job it is called for (the row with the JobID for the table, the
\* entry at the index for the session list): the other fields of that
\* job, every other job and the number of jobs stay as they were.
C13_RetryFrame ==
    [][/\ last'.op \in {"retry_job", "retry_button_sync"} =>
            /\ Len(jobs') = Len(jobs)
            /\ \A i \in 1..Len(jobs) :
                 IF jobs[i].JobID = last'.job_id
                 THEN [jobs'[i] EXCEPT
                         !.Status = jobs[i].Status,
                         !.RetryCount = jobs[i].RetryCount,
                         !.ExecutedDateTime = jobs[i].ExecutedDateTime]
                      = jobs[i]
                 ELSE jobs'[i] = jobs[i]
       /\ last'.op = "retry_button_session" =>
            /\ Len(session_jobs') = Len(session_jobs)
            /\ \A i \in 1..Len(session_jobs) :
                 IF i = last'.index + 1
                 THEN [session_jobs'[i] EXCEPT
                         !.Status = session_jobs[i].Status,
                         !.RetryCount = session_jobs[i].RetryCount,
                         !.ExecutedDatetime = session_jobs[i].ExecutedDatetime]
                      = session_jobs[i]
                 ELSE session_jobs'[i] = session_jobs[i]]_vars

====
